---- MODULE Spec2Model ----
(***************************************************************************)
(* Trigger-based change data capture (cdc_system.py): a source table whose *)
(* row mutations are captured into the <table>_cdc log by three AFTER      *)
(* triggers, CDCSystem's reader operations over that log, and              *)
(* CDCReplicator.replicate_changes draining the log into a target table.   *)
(* Also modelled: setup_trigger_based_cdc on a database that may already   *)
(* hold the cdc objects, CDCMonitor.get_health_report, the transactions of *)
(* the source connection, and replicate_changes statement by statement,    *)
(* for overlapping callers and for a caller whose process dies.            *)
(***************************************************************************)
EXTENDS Integers, Sequences, FiniteSets, TLC

(* ------------------------------ bounds -------------------------------- *)
\* number of row mutations performed against the source table
MaxLog == 3
\* the same, in the runs that let the clock advance
MaxLogTimed == 2
\* number of inserts in the runs of two overlapping replicate_changes
\* invocations
MaxLogSteps == 1
\* the same, in the runs in which the replicator's process may die
MaxLogCrash == 2
\* the same, in the runs that call the readers and the monitor
MaxLogMonitor == 2
\* the same, in the runs that call setup_trigger_based_cdc
MaxLogSetup == 3
\* the same, in the runs with transactions on the source connection
MaxLogTxn == 2
\* the same, in the runs whose connections may fail
MaxLogFail == 2
\* a batch handed to the apply loop on its own has up to MaxBatch records
MaxBatch == 2
\* the same as MaxLog, in the runs that call every operation of the core
MaxLogCore == 2
\* the same, in the runs whose setup calls may fail part-way
MaxLogInit == 2
\* the same, in the runs of a scheduled replicator with failing records
MaxLogPoison == 2
\* the same, in the runs of a scheduled replicator without failures
MaxLogDrain == 2
\* wall-clock seconds observed by CURRENT_TIMESTAMP range over 0..MaxClock
MaxClock == 1

\* primary keys of the rows of the source and target tables
Ids == {1, 2}
\* values of the non-key column
Vals == {100, 200}
\* batch_size arguments passed to replicate_changes (0 is falsy: no LIMIT)
BatchSizes == {0, 1, 2}
\* the pending count from which get_health_report reports 'warning'
HealthThreshold == 1000
\* self.cdc.table_name
TableName == "test_table"
\* the operation tags the triggers write
Operations == {"INSERT", "UPDATE", "DELETE"}
\* per-operation pending and synced counts handed to the report on its own:
\* none, a few, and the counts around the threshold
PendingCounts == {0, 1, HealthThreshold - 1, HealthThreshold,
                  HealthThreshold + 1}
SyncedCounts == {0, 1}
\* the callers of replicate_changes that may overlap
Procs == {1, 2}
\* limit arguments passed to get_pending_changes by a monitoring caller
ReaderLimits == {0, 1}
\* an id no AUTOINCREMENT counter reaches within the bounds
UnknownId == MaxLog + 1
\* ret before the first replicate_changes call
NoCall == 0 - 1
\* the key on which the target rejects every statement, in the runs with
\* records whose apply raises at every attempt
PoisonKey == 1
\* ret of a replicate_changes call that an exception left
Raised == 0 - 2

(* ------------------------------ values -------------------------------- *)
\* SQL NULL / Python None
NULL == <<>>
\* a non-NULL value of the nullable TIMESTAMP column sync_timestamp
Timestamp(t) == <<t>>

\* the `columns` argument of setup_trigger_based_cdc; columns[0] is the key
Columns == <<"id", "value">>

Row(i, v) == [id |-> i, value |-> v]
Rows == {Row(i, v) : i \in Ids, v \in Vals}

\* SQLite json_object('c1', r.c1, 'c2', r.c2, ...): the TEXT stored in
\* old_data/new_data, here the list of key/value pairs in column order
json_object(cols, row) == [i \in 1..Len(cols) |-> <<cols[i], row[cols[i]]>>]

\* json.loads of that TEXT: a dict from key to value
json_loads(text) ==
  [k \in {text[i][1] : i \in 1..Len(text)} |->
     text[CHOOSE i \in 1..Len(text) : text[i][1] = k][2]]

VARIABLES
  source,    \* rows of the captured (source) table
  target,    \* rows of the target table, as seen through target_db
  log,       \* rows of the <table>_cdc table
  seq,       \* sqlite_sequence entry of the cdc table (AUTOINCREMENT)
  now,       \* CURRENT_TIMESTAMP
  history,   \* the row mutations performed so far, in order
  ret,       \* what the most recent replicate_changes call returned
  schema,    \* sqlite_master of the source database: cdc table, triggers
  durable,   \* the committed state of the source database
  targetDurable, \* the committed rows of the target table
  proc,      \* the replicate_changes invocations in progress, per caller
  fetched,   \* what the most recent get_pending_changes call returned
  stats,     \* what the most recent get_change_statistics call returned
  report,    \* what the most recent get_health_report call returned
  applied    \* the cdc_ids whose apply the target holds: in the view of
             \* target_db, and committed

vars == <<source, target, log, seq, now, history, ret, schema, durable,
          targetDurable, proc, fetched, stats, report, applied>>

\* the locals of the replicator's callers and the results of the reader calls
others == <<proc, fetched, stats, report>>

(* --------------------------- the cdc table ---------------------------- *)
\* one INSERT INTO <table>_cdc: cdc_id from AUTOINCREMENT, the columns the
\* statement names, and the table's defaults for the others
CdcRow(sq, op, rid, old, new, t) ==
  [cdc_id |-> sq + 1, operation |-> op, record_id |-> rid,
   old_data |-> old, new_data |-> new,
   changed_at |-> t, synced |-> 0, sync_timestamp |-> NULL]

\* body of <table>_insert_trigger (AFTER INSERT, row NEW)
InsertTrigger(sq, new, t) ==
  CdcRow(sq, "INSERT", new[Columns[1]], NULL, json_object(Columns, new), t)

\* mutant: record_id taken from OLD instead of NEW
UpdateTrigger_OldKey(sq, old, new, t) ==
  CdcRow(sq, "UPDATE", old[Columns[1]],
         json_object(Columns, old), json_object(Columns, new), t)

\* body of <table>_update_trigger (AFTER UPDATE, rows OLD and NEW)
UpdateTrigger(sq, old, new, t) ==
  CdcRow(sq, "UPDATE", new[Columns[1]],
         json_object(Columns, old), json_object(Columns, new), t)

\* mutant: the delete trigger written from the update trigger, tag not changed
DeleteTrigger_TaggedUpdate(sq, old, t) ==
  CdcRow(sq, "UPDATE", old[Columns[1]], json_object(Columns, old), NULL, t)

\* body of <table>_delete_trigger (AFTER DELETE, row OLD)
DeleteTrigger(sq, old, t) ==
  CdcRow(sq, "DELETE", old[Columns[1]], json_object(Columns, old), NULL, t)

\* the trigger body run for one row event
TriggerBody(event, sq, old, new, t) ==
  IF event = "INSERT" THEN InsertTrigger(sq, new, t)
  ELSE IF event = "UPDATE" THEN UpdateTrigger(sq, old, new, t)
  ELSE DeleteTrigger(sq, old, t)

CdcIds(lg) == {r.cdc_id : r \in lg}
CdcById(lg, i) == CHOOSE r \in lg : r.cdc_id = i

\* mutant: ORDER BY cdc_id DESC
RECURSIVE OrderByCdcId_Desc(_)
OrderByCdcId_Desc(rows) ==
  IF rows = {} THEN <<>>
  ELSE LET m == CHOOSE r \in rows : \A q \in rows : r.cdc_id >= q.cdc_id
       IN <<m>> \o OrderByCdcId_Desc(rows \ {m})

\* ORDER BY cdc_id over a set of cdc rows
RECURSIVE OrderByCdcId(_)
OrderByCdcId(rows) ==
  IF rows = {} THEN <<>>
  ELSE LET m == CHOOSE r \in rows : \A q \in rows : r.cdc_id <= q.cdc_id
       IN <<m>> \o OrderByCdcId(rows \ {m})

\* mutant: LIMIT n - 1
Limit_OffByOne(s, n) ==
  IF n < 0 \/ n - 1 >= Len(s) THEN s ELSE SubSeq(s, 1, n - 1)

\* LIMIT n of SQLite: a negative n means no limit
Limit(s, n) == IF n < 0 \/ n >= Len(s) THEN s ELSE SubSeq(s, 1, n)

\* the per-row post-processing of get_pending_changes: parse the images
ParseChange(r) ==
  [r EXCEPT !.old_data = IF r.old_data # NULL
                         THEN json_loads(r.old_data) ELSE r.old_data,
            !.new_data = IF r.new_data # NULL
                         THEN json_loads(r.new_data) ELSE r.new_data]

\* the `if limit:` of get_pending_changes: the LIMIT clause is added for a
\* truthy limit only; the default None takes the branch of 0 and is written
\* 0 here
LimitClause(ordered, limit) ==
  IF limit # 0 THEN Limit(ordered, limit) ELSE ordered

\* the `for row in rows` loop of get_pending_changes
ParseRows(rows) == [i \in 1..Len(rows) |-> ParseChange(rows[i])]

\* mutant: the records an invocation in progress has fetched are left out
GetPendingChanges_Claimed(lg, limit) ==
  ParseRows(LimitClause(
    OrderByCdcId({r \in lg :
      /\ r.synced = 0
      /\ \A p \in DOMAIN proc :
           proc[p].pc = "idle"
             \/ r.cdc_id \notin {proc[p].changes[k].cdc_id :
                                    k \in 1..Len(proc[p].changes)}}),
    limit))

\* mutant: the WHERE synced = 0 clause left out
GetPendingChanges_NoWhere(lg, limit) ==
  ParseRows(LimitClause(OrderByCdcId(lg), limit))

\* CDCSystem.get_pending_changes(limit)
GetPendingChanges(lg, limit) ==
  ParseRows(LimitClause(OrderByCdcId({r \in lg : r.synced = 0}), limit))

\* mutant: the flag flipped instead of set
MarkAsSynced_Flip(lg, ids, t) ==
  IF ids = {} THEN lg
  ELSE {IF r.cdc_id \in ids
        THEN [r EXCEPT !.synced = 1 - r.synced, !.sync_timestamp = Timestamp(t)]
        ELSE r : r \in lg}

\* mutant: the flag toggled through a statement that rewrites the row
MarkAsSynced_Toggle(lg, ids, t) ==
  IF ids = {} THEN lg
  ELSE {IF r.cdc_id \in ids
        THEN [r EXCEPT !.synced = IF r.synced = 0 THEN 1 ELSE 0,
                       !.sync_timestamp = Timestamp(t)]
        ELSE r : r \in lg}

\* mutant: every pending record marked, whatever ids were passed
MarkAsSynced_AllPending(lg, ids, t) ==
  IF ids = {} THEN lg
  ELSE {IF r.synced = 0
        THEN [r EXCEPT !.synced = 1, !.sync_timestamp = Timestamp(t)]
        ELSE r : r \in lg}

\* mutant: the WHERE cdc_id IN (...) clause left out
MarkAsSynced_NoWhere(lg, ids, t) ==
  IF ids = {} THEN lg
  ELSE {[r EXCEPT !.synced = 1, !.sync_timestamp = Timestamp(t)] : r \in lg}

\* CDCSystem.mark_as_synced(cdc_ids) at time t
MarkAsSynced(lg, ids, t) ==
  IF ids = {} THEN lg
  ELSE {IF r.cdc_id \in ids
        THEN [r EXCEPT !.synced = 1, !.sync_timestamp = Timestamp(t)]
        ELSE r : r \in lg}

\* mutant: the statistics of an earlier call kept and returned again
GetChangeStatistics_Cached(lg) ==
  IF stats # NULL THEN stats
  ELSE [op \in {r.operation : r \in lg} |->
         [total   |-> Cardinality({r \in lg : r.operation = op}),
          pending |-> Cardinality({r \in lg : r.operation = op
                                                /\ r.synced = 0}),
          synced  |-> Cardinality({r \in lg : r.operation = op
                                                /\ r.synced = 1})]]

\* mutant: the statistics computed over the pending rows only
GetChangeStatistics_Pending(lg) ==
  [op \in {r.operation : r \in {q \in lg : q.synced = 0}} |->
     [total   |-> Cardinality({r \in lg : r.operation = op /\ r.synced = 0}),
      pending |-> Cardinality({r \in lg : r.operation = op /\ r.synced = 0}),
      synced  |-> 0]]

\* CDCSystem.get_change_statistics: GROUP BY operation over the whole table
GetChangeStatistics(lg) ==
  [op \in {r.operation : r \in lg} |->
     [total   |-> Cardinality({r \in lg : r.operation = op}),
      pending |-> Cardinality({r \in lg : r.operation = op /\ r.synced = 0}),
      synced  |-> Cardinality({r \in lg : r.operation = op /\ r.synced = 1})]]

(* ----------------------------- the monitor ---------------------------- *)
\* sum(s.get(field, 0) for s in stats.values())
RECURSIVE SumOver(_, _, _)
SumOver(st, ops, field) ==
  IF ops = {} THEN 0
  ELSE LET op == CHOOSE o \in ops : TRUE
       IN st[op][field] + SumOver(st, ops \ {op}, field)

\* mutant: the status compared with <= against the threshold
HealthStatus_Exceeds(total_pending) ==
  IF total_pending <= HealthThreshold THEN "healthy" ELSE "warning"

\* 'healthy' if total_pending < 1000 else 'warning'
HealthStatus(total_pending) ==
  IF total_pending < HealthThreshold THEN "healthy" ELSE "warning"

\* the report CDCMonitor.get_health_report builds from the statistics st
HealthReport(st, t) ==
  LET total_pending == SumOver(st, DOMAIN st, "pending")
      total_synced == SumOver(st, DOMAIN st, "synced")
  IN [timestamp |-> t, table |-> TableName,
      total_changes |-> total_pending + total_synced,
      pending_changes |-> total_pending,
      synced_changes |-> total_synced,
      by_operation |-> st,
      health_status |-> HealthStatus(total_pending)]

\* the GROUP BY rows a cdc table can produce for one operation: counts from
\* PendingCounts and SyncedCounts
StatsRows ==
  {[total |-> pn + sn, pending |-> pn, synced |-> sn] :
     pn \in PendingCounts, sn \in SyncedCounts}

(* ------------------------- the target table --------------------------- *)
\* mutant: INSERT OR IGNORE, the row already in the target is kept
_apply_insert_Ignore(tgt, change) ==
  LET data == change.new_data
  IN IF \E r \in tgt : r.id = data["id"] THEN tgt
     ELSE tgt \cup {Row(data["id"], data["value"])}

\* CDCReplicator._apply_insert: INSERT OR REPLACE INTO target (keys of
\* new_data) VALUES (...): the row with the same primary key is replaced
_apply_insert(tgt, change) ==
  LET data == change.new_data
  IN {r \in tgt : r.id # data["id"]} \cup {Row(data["id"], data["value"])}

\* CDCReplicator._apply_update: UPDATE target SET <non-id columns of
\* new_data> WHERE id = new_data['id']
_apply_update(tgt, change) ==
  LET data == change.new_data
  IN {IF r.id = data["id"] THEN [r EXCEPT !.value = data["value"]] ELSE r
      : r \in tgt}

\* CDCReplicator._apply_delete: DELETE FROM target WHERE id = record_id
_apply_delete(tgt, change) == {r \in tgt : r.id # change.record_id}

\* the dispatch on change['operation'] inside the try block
ApplyChange(tgt, change) ==
  IF change.operation = "INSERT" THEN _apply_insert(tgt, change)
  ELSE IF change.operation = "UPDATE" THEN _apply_update(tgt, change)
  ELSE IF change.operation = "DELETE" THEN _apply_delete(tgt, change)
  ELSE tgt

\* mutant: the loop left at the first apply that raises
RECURSIVE ApplyLoop_Break(_, _, _, _, _)
ApplyLoop_Break(tgt, changes, fails, i, replicated_ids) ==
  IF i > Len(changes) THEN [target |-> tgt, replicated_ids |-> replicated_ids]
  ELSE IF changes[i].cdc_id \in fails
       THEN [target |-> tgt, replicated_ids |-> replicated_ids]
       ELSE ApplyLoop_Break(ApplyChange(tgt, changes[i]), changes, fails, i + 1,
                            Append(replicated_ids, changes[i].cdc_id))

\* the for loop of replicate_changes from position i on: a change whose
\* apply raises (its cdc_id is in fails) leaves the target as it was and is
\* not appended to replicated_ids; the loop continues with the next change
RECURSIVE ApplyLoop(_, _, _, _, _)
ApplyLoop(tgt, changes, fails, i, replicated_ids) ==
  IF i > Len(changes) THEN [target |-> tgt, replicated_ids |-> replicated_ids]
  ELSE IF changes[i].cdc_id \in fails
       THEN ApplyLoop(tgt, changes, fails, i + 1, replicated_ids)
       ELSE ApplyLoop(ApplyChange(tgt, changes[i]), changes, fails, i + 1,
                      Append(replicated_ids, changes[i].cdc_id))

\* whether the target statement of a change raises: INSERT OR REPLACE
\* resolves a primary-key conflict by replacing the row, and an UPDATE or a
\* DELETE whose WHERE matches no row is a statement that affects 0 rows
ApplyRaises(tgt, change) ==
  FALSE

\* the cdc_ids of the changes, from position i on, whose apply raises when
\* the loop runs over changes from the target rows tgt
RECURSIVE Raising(_, _, _)
Raising(tgt, changes, i) ==
  IF i > Len(changes) THEN {}
  ELSE IF ApplyRaises(tgt, changes[i])
       THEN {changes[i].cdc_id} \cup Raising(tgt, changes, i + 1)
       ELSE Raising(ApplyChange(tgt, changes[i]), changes, i + 1)

Range(s) == {s[i] : i \in 1..Len(s)}

\* the cdc_ids of a list of changes, in list order
ChangeIds(changes) == [i \in 1..Len(changes) |-> changes[i].cdc_id]

(* ----------------------------- the schema ----------------------------- *)
\* the source database as its connection sees it
SourceDb ==
  [source |-> source, log |-> log, seq |-> seq, schema |-> schema,
   history |-> history]

\* a database holding the empty source table and nothing else
EmptyDb ==
  [source |-> {}, log |-> {}, seq |-> 0,
   schema |-> [table |-> FALSE, index |-> FALSE, triggers |-> {}],
   history |-> <<>>]

\* mutant: DROP TABLE IF EXISTS before the CREATE TABLE
CreateTable_Recreate(d) ==
  [d EXCEPT !.schema.table = TRUE, !.log = {}, !.seq = 0]

\* CREATE TABLE IF NOT EXISTS <table>_cdc
CreateTable(d) ==
  IF d.schema.table THEN d ELSE [d EXCEPT !.schema.table = TRUE]

\* CREATE INDEX IF NOT EXISTS idx_<table>_cdc_synced
CreateIndex(d) ==
  IF d.schema.index THEN d ELSE [d EXCEPT !.schema.index = TRUE]

\* mutant: the trigger created under a name of its own at every call
CreateTrigger_Renamed(d, name, event) ==
  [d EXCEPT !.schema.triggers =
     @ \cup {[name |-> <<name, Cardinality(@)>>, event |-> event]}]

\* CREATE TRIGGER IF NOT EXISTS <table>_<name> AFTER <event> ON <table>
CreateTrigger(d, name, event) ==
  IF \E t \in d.schema.triggers : t.name = <<name, 0>> THEN d
  ELSE [d EXCEPT !.schema.triggers =
          @ \cup {[name |-> <<name, 0>>, event |-> event]}]

_create_insert_trigger(d) == CreateTrigger(d, "insert_trigger", "INSERT")
_create_update_trigger(d) == CreateTrigger(d, "update_trigger", "UPDATE")
_create_delete_trigger(d) == CreateTrigger(d, "delete_trigger", "DELETE")

\* CDCSystem.setup_trigger_based_cdc(columns) on database d
setup_trigger_based_cdc(d) ==
  _create_delete_trigger(
    _create_update_trigger(
      _create_insert_trigger(CreateIndex(CreateTable(d)))))

\* the number of CREATE statements setup_trigger_based_cdc executes
SetupLength == 5

\* mutant: the three triggers created before the table and its index
SetupStatement_TriggersFirst(k) ==
  IF k = 1 THEN "insert_trigger"
  ELSE IF k = 2 THEN "update_trigger"
  ELSE IF k = 3 THEN "delete_trigger"
  ELSE IF k = 4 THEN "table"
  ELSE "index"

\* the k-th CREATE statement of setup_trigger_based_cdc, in program order
SetupStatement(k) ==
  IF k = 1 THEN "table"
  ELSE IF k = 2 THEN "index"
  ELSE IF k = 3 THEN "insert_trigger"
  ELSE IF k = 4 THEN "update_trigger"
  ELSE "delete_trigger"

\* one CREATE statement of setup_trigger_based_cdc run on database d
Execute(d, stmt) ==
  IF stmt = "table" THEN CreateTable(d)
  ELSE IF stmt = "index" THEN CreateIndex(d)
  ELSE IF stmt = "insert_trigger" THEN _create_insert_trigger(d)
  ELSE IF stmt = "update_trigger" THEN _create_update_trigger(d)
  ELSE _create_delete_trigger(d)

\* database d after the first k statements of setup_trigger_based_cdc
RECURSIVE SetupPrefix(_, _)
SetupPrefix(d, k) ==
  IF k = 0 THEN d ELSE Execute(SetupPrefix(d, k - 1), SetupStatement(k))

\* the rows the AFTER <event> triggers of the schema append for one row event
Fired(sch, event, sq, old, new, t) ==
  {TriggerBody(event, sq + k - 1, old, new, t) :
     k \in 1..Cardinality({tr \in sch.triggers : tr.event = event})}

\* a row event can run when its triggers find the table they insert into
CanFire(sch, event) ==
  sch.table \/ \A tr \in sch.triggers : tr.event # event

\* a caller of replicate_changes that has no invocation in progress
Idle ==
  [pc |-> "idle", batch_size |-> 0, changes |-> <<>>, i |-> 1,
   replicated_ids |-> <<>>, calls |-> <<>>, ret |-> NoCall,
   failed |-> <<>>]

(* ------------------------------ actions ------------------------------- *)
\* the state before setup_trigger_based_cdc was ever called
InitBare ==
  /\ source = {}
  /\ target = {}
  /\ log = {}
  /\ seq = 0
  /\ now = 0
  /\ history = <<>>
  /\ ret = NoCall
  /\ schema = EmptyDb.schema
  /\ durable = EmptyDb
  /\ targetDurable = {}
  /\ proc = [p \in Procs |-> Idle]
  /\ fetched = NULL
  /\ stats = NULL
  /\ report = NULL
  /\ applied = [view |-> {}, durable |-> {}]

\* the state after construction and one setup_trigger_based_cdc call
Init ==
  /\ source = {}
  /\ target = {}
  /\ log = {}
  /\ seq = 0
  /\ now = 0
  /\ history = <<>>
  /\ ret = NoCall
  /\ schema = setup_trigger_based_cdc(EmptyDb).schema
  /\ durable = setup_trigger_based_cdc(EmptyDb)
  /\ targetDurable = {}
  /\ proc = [p \in Procs |-> Idle]
  /\ fetched = NULL
  /\ stats = NULL
  /\ report = NULL
  /\ applied = [view |-> {}, durable |-> {}]

\* CURRENT_TIMESTAMP advances
Tick ==
  /\ now < MaxClock
  /\ now' = now + 1
  /\ UNCHANGED <<source, target, log, seq, history, ret, schema, durable,
                 targetDurable, others, applied>>

\* INSERT INTO <table> of one row, not committed; the AFTER INSERT triggers
\* append in the same transaction
InsertStmt(new, n) ==
  /\ Len(history) < n
  /\ \A r \in source : r.id # new.id
  /\ CanFire(schema, "INSERT")
  /\ source' = source \cup {new}
  /\ \E rows \in {Fired(schema, "INSERT", seq, NULL, new, now)} :
       /\ log' = log \cup rows
       /\ seq' = seq + Cardinality(rows)
  /\ history' = Append(history, [op |-> "INSERT", old |-> NULL, new |-> new])
  /\ UNCHANGED <<target, now, ret, schema, targetDurable, others, applied>>

\* UPDATE <table> of one row (the key may change), not committed
UpdateStmt(old, new, n) ==
  /\ Len(history) < n
  /\ old \in source
  /\ \A r \in source \ {old} : r.id # new.id
  /\ CanFire(schema, "UPDATE")
  /\ source' = (source \ {old}) \cup {new}
  /\ \E rows \in {Fired(schema, "UPDATE", seq, old, new, now)} :
       /\ log' = log \cup rows
       /\ seq' = seq + Cardinality(rows)
  /\ history' = Append(history, [op |-> "UPDATE", old |-> old, new |-> new])
  /\ UNCHANGED <<target, now, ret, schema, targetDurable, others, applied>>

\* DELETE FROM <table> of one row, not committed
DeleteStmt(old, n) ==
  /\ Len(history) < n
  /\ old \in source
  /\ CanFire(schema, "DELETE")
  /\ source' = source \ {old}
  /\ \E rows \in {Fired(schema, "DELETE", seq, old, NULL, now)} :
       /\ log' = log \cup rows
       /\ seq' = seq + Cardinality(rows)
  /\ history' = Append(history, [op |-> "DELETE", old |-> old, new |-> NULL])
  /\ UNCHANGED <<target, now, ret, schema, targetDurable, others, applied>>

\* the caller's INSERT followed by its commit
SrcInsert(new, n) ==
  /\ InsertStmt(new, n)
  /\ durable' = SourceDb'

\* the caller's UPDATE followed by its commit
SrcUpdate(old, new, n) ==
  /\ UpdateStmt(old, new, n)
  /\ durable' = SourceDb'

\* the caller's DELETE followed by its commit
SrcDelete(old, n) ==
  /\ DeleteStmt(old, n)
  /\ durable' = SourceDb'

\* CDCReplicator.replicate_changes(batch_size), having fetched `changes`;
\* fails are the cdc_ids of the fetched changes whose apply raises in this
\* call
ReplicateChanges(changes, fails) ==
  IF changes = <<>>
  THEN /\ ret' = 0
       /\ UNCHANGED <<source, target, log, seq, now, history, schema,
                      durable, targetDurable, others, applied>>
  ELSE \E res \in {ApplyLoop(target, changes, fails, 1, <<>>)} :
         /\ target' = res.target
         /\ log' = IF res.replicated_ids # <<>>
                   THEN MarkAsSynced(log, Range(res.replicated_ids), now)
                   ELSE log
         /\ ret' = Len(res.replicated_ids)
         /\ UNCHANGED <<source, seq, now, history, schema, others>>
         /\ durable' = IF res.replicated_ids # <<>> THEN SourceDb'
                       ELSE durable
         /\ targetDurable' = IF res.replicated_ids # <<>> THEN target'
                             ELSE targetDurable
         /\ applied' = [view |-> applied.view \cup Range(res.replicated_ids),
                        durable |-> applied.durable
                                      \cup Range(res.replicated_ids)]

Replicate(batch_size, fails) ==
  \E changes \in {GetPendingChanges(log, batch_size)} :
    /\ fails \subseteq Range(ChangeIds(changes))
    /\ ReplicateChanges(changes, fails)

\* a direct call of CDCSystem.mark_as_synced(cdc_ids)
MarkDelivered(cdc_ids) ==
  /\ log' = MarkAsSynced(log, cdc_ids, now)
  /\ UNCHANGED <<source, target, seq, now, history, ret, schema,
                 targetDurable, others, applied>>
  /\ durable' = IF cdc_ids # {} THEN SourceDb' ELSE durable

\* at most n row mutations in a run
Mutate(n) ==
  \/ \E new \in Rows : SrcInsert(new, n)
  \/ \E old \in source, new \in Rows : SrcUpdate(old, new, n)
  \/ \E old \in source : SrcDelete(old, n)

\* replicate_changes calls with an arbitrary set of failing applies
ReplicateCall ==
  \E batch_size \in BatchSizes :
    \E changes \in {GetPendingChanges(log, batch_size)} :
      \E fails \in SUBSET Range(ChangeIds(changes)) :
        ReplicateChanges(changes, fails)

\* replicate_changes calls in which no apply raises
ReplicateClean == \E batch_size \in BatchSizes : Replicate(batch_size, {})

MarkCall ==
  \E cdc_ids \in SUBSET (CdcIds(log) \cup {UnknownId}) : MarkDelivered(cdc_ids)

\* the pipeline: mutations of the source and replicate calls
Next ==
  \/ Mutate(MaxLog)
  \/ ReplicateCall

Spec == Init /\ [][Next]_vars

\* the pipeline when no apply ever raises
NextNoFail ==
  \/ Mutate(MaxLog)
  \/ ReplicateClean

SpecNoFail == Init /\ [][NextNoFail]_vars

\* CDCSystem on its own: mutations of the source and direct calls of
\* mark_as_synced, no replicator attached
NextReader ==
  \/ Mutate(MaxLog)
  \/ MarkCall

SpecReader == Init /\ [][NextReader]_vars

\* CDCSystem on its own under a clock that advances: mutations of the source
\* and mark_as_synced calls with any list of ids, those replicate_changes
\* passes included
NextTimed ==
  \/ Tick
  \/ Mutate(MaxLogTimed)
  \/ MarkCall

SpecTimed == Init /\ [][NextTimed]_vars

(* ------------------------------- setup -------------------------------- *)
\* a call of CDCSystem.setup_trigger_based_cdc(Columns); every statement of
\* it is followed by a commit of the source connection
Setup ==
  /\ \E d \in {setup_trigger_based_cdc(SourceDb)} :
       /\ schema' = d.schema
       /\ log' = d.log
       /\ seq' = d.seq
       /\ source' = d.source
       /\ history' = d.history
  /\ UNCHANGED <<target, now, ret, targetDurable, others, applied>>
  /\ durable' = SourceDb'

\* a source table that is written before, between and after setup calls
NextSetup ==
  \/ Setup
  \/ Mutate(MaxLogSetup)

SpecSetup == InitBare /\ [][NextSetup]_vars

\* a call of setup_trigger_based_cdc that raises at its statement k + 1: the
\* first k statements were executed, and each CREATE, run outside a
\* transaction, is committed as it completes
SetupInterrupted(k) ==
  /\ \E d \in {SetupPrefix(SourceDb, k)} :
       /\ schema' = d.schema
       /\ log' = d.log
       /\ seq' = d.seq
       /\ source' = d.source
       /\ history' = d.history
  /\ UNCHANGED <<target, now, ret, targetDurable, others, applied>>
  /\ durable' = SourceDb'

\* a source table that is written before, between and after setup calls,
\* any of which may fail part-way
NextSetupFail ==
  \/ Setup
  \/ \E k \in 0..(SetupLength - 1) : SetupInterrupted(k)
  \/ Mutate(MaxLogInit)

SpecSetupFail == InitBare /\ [][NextSetupFail]_vars

(* ---------------------- transactions of the source -------------------- *)
\* mutant: the cdc table written through a connection of its own, which a
\* rollback of the caller's transaction does not reach
Rollback_KeepLog(view, committed) ==
  [committed EXCEPT !.log = view.log, !.seq = view.seq]

\* what the source connection sees once its open transaction is abandoned
\* (the connection is closed, or the process ends, before commit)
Rollback(view, committed) == committed

\* self.conn.commit(): what becomes durable
Commit(view) == view

\* a mutation executed and not committed yet
ExecMutate(n) ==
  /\ \/ \E new \in Rows : InsertStmt(new, n)
     \/ \E old \in source, new \in Rows : UpdateStmt(old, new, n)
     \/ \E old \in source : DeleteStmt(old, n)
  /\ UNCHANGED durable

\* the caller's commit of its open transaction
SrcCommit ==
  /\ durable # SourceDb
  /\ durable' = Commit(SourceDb)
  /\ UNCHANGED <<source, target, log, seq, now, history, ret, schema,
                 targetDurable, others, applied>>

\* the caller's open transaction is abandoned
SrcRollback ==
  /\ durable # SourceDb
  /\ \E d \in {Rollback(SourceDb, durable)} :
       /\ source' = d.source
       /\ log' = d.log
       /\ seq' = d.seq
       /\ schema' = d.schema
       /\ history' = d.history
  /\ UNCHANGED <<target, now, ret, durable, targetDurable, others, applied>>

\* transactions on the source connection, which mark_as_synced shares
NextTxn ==
  \/ ExecMutate(MaxLogTxn)
  \/ SrcCommit
  \/ SrcRollback
  \/ MarkCall

SpecTxn == Init /\ [][NextTxn]_vars

(* ------------------ replicate_changes, statement by statement --------- *)
\* mutant: the target committed before the records are marked
StepAfter_CommitFirst(pc, changes, i, replicated_ids) ==
  IF pc = "loop"
  THEN IF i < Len(changes) THEN "loop"
       ELSE IF replicated_ids # <<>> THEN "commit" ELSE "idle"
  ELSE IF pc = "commit" THEN "mark"
  ELSE "idle"

\* the statement replicate_changes reaches after the one at pc: the loop
\* body for every fetched change, then `if replicated_ids:` mark_as_synced,
\* then target_db.commit(), then the return
StepAfter(pc, changes, i, replicated_ids) ==
  IF pc = "loop"
  THEN IF i < Len(changes) THEN "loop"
       ELSE IF replicated_ids # <<>> THEN "mark" ELSE "idle"
  ELSE IF pc = "mark" THEN "commit"
  ELSE "idle"

\* changes = self.cdc.get_pending_changes(limit=batch_size), and the
\* `if not changes: return 0` that follows it
Fetch(p, batch_size) ==
  /\ proc[p].pc = "idle"
  /\ \E changes \in {GetPendingChanges(log, batch_size)} :
       /\ proc' = [proc EXCEPT ![p] =
            [pc |-> IF changes = <<>> THEN "idle" ELSE "loop",
             batch_size |-> batch_size,
             changes |-> changes, i |-> 1, replicated_ids |-> <<>>,
             calls |-> <<>>,
             ret |-> IF changes = <<>> THEN 0 ELSE NoCall,
             failed |-> <<>>]]
       /\ ret' = IF changes = <<>> THEN 0 ELSE ret
  /\ UNCHANGED <<source, target, log, seq, now, history, schema, durable,
                 targetDurable, fetched, stats, report, applied>>

\* mutant: the append moved out of the try block, after the handler
AppendReplicated_Always(replicated_ids, cdc_id, ok) ==
  Append(replicated_ids, cdc_id)

\* replicated_ids.append(change['cdc_id']), the last statement of the try
\* block: it is reached when the apply before it did not raise
AppendReplicated(replicated_ids, cdc_id, ok) ==
  IF ok THEN Append(replicated_ids, cdc_id) ELSE replicated_ids

\* one pass of the loop body: the apply of changes[i] succeeds (ok) or raises
Apply(p, ok) ==
  /\ proc[p].pc = "loop"
  /\ \E c \in {proc[p].changes[proc[p].i]} :
     \E ids \in {AppendReplicated(proc[p].replicated_ids, c.cdc_id, ok)} :
     \E pc \in {StepAfter("loop", proc[p].changes, proc[p].i, ids)} :
       /\ target' = IF ok THEN ApplyChange(target, c) ELSE target
       /\ applied' = IF ok THEN [applied EXCEPT !.view = @ \cup {c.cdc_id}]
                     ELSE applied
       /\ proc' = [proc EXCEPT ![p].pc = pc,
                               ![p].i = @ + 1,
                               ![p].replicated_ids = ids,
                               ![p].calls = Append(@, "apply"),
                               ![p].ret = IF pc = "idle" THEN Len(ids)
                                          ELSE @]
       /\ ret' = IF pc = "idle" THEN Len(ids) ELSE ret
  /\ UNCHANGED <<source, log, seq, now, history, schema, durable,
                 targetDurable, fetched, stats, report>>

\* self.cdc.mark_as_synced(replicated_ids), which commits the source
Mark(p) ==
  /\ proc[p].pc = "mark"
  /\ log' = MarkAsSynced(log, Range(proc[p].replicated_ids), now)
  /\ \E pc \in {StepAfter("mark", proc[p].changes, proc[p].i,
                          proc[p].replicated_ids)} :
       /\ proc' = [proc EXCEPT ![p].pc = pc,
                               ![p].calls = Append(@, "mark_as_synced"),
                               ![p].ret =
                                 IF pc = "idle"
                                 THEN Len(proc[p].replicated_ids) ELSE @]
       /\ ret' = IF pc = "idle" THEN Len(proc[p].replicated_ids) ELSE ret
  /\ UNCHANGED <<source, target, seq, now, history, schema, targetDurable,
                 fetched, stats, report, applied>>
  /\ durable' = SourceDb'

\* self.target_db.commit()
CommitTarget(p) ==
  /\ proc[p].pc = "commit"
  /\ targetDurable' = target
  /\ applied' = [applied EXCEPT !.durable = applied.view]
  /\ \E pc \in {StepAfter("commit", proc[p].changes, proc[p].i,
                          proc[p].replicated_ids)} :
       /\ proc' = [proc EXCEPT ![p].pc = pc,
                               ![p].calls = Append(@, "commit"),
                               ![p].ret =
                                 IF pc = "idle"
                                 THEN Len(proc[p].replicated_ids) ELSE @]
       /\ ret' = IF pc = "idle" THEN Len(proc[p].replicated_ids) ELSE ret
  /\ UNCHANGED <<source, target, log, seq, now, history, schema, durable,
                 fetched, stats, report>>

\* the process running invocation p dies: its connections are closed, what
\* target_db had not committed is rolled back
Crash(p) ==
  /\ proc[p].pc # "idle"
  /\ proc' = [proc EXCEPT ![p].pc = "idle"]
  /\ target' = targetDurable
  /\ applied' = [applied EXCEPT !.view = applied.durable]
  /\ UNCHANGED <<source, log, seq, now, history, ret, schema, durable,
                 targetDurable, fetched, stats, report>>

\* mutant: the loop's handler catches nothing
Caught_Never(stmt) ==
  FALSE

\* the statements inside the loop's `try ... except Exception`: an exception
\* raised there is logged and the loop goes on; one raised anywhere else
\* leaves replicate_changes
Caught(stmt) ==
  stmt = "apply"

\* the statement an invocation at pc executes next
StatementAt(pc) ==
  IF pc = "idle" THEN "get_pending_changes"
  ELSE IF pc = "loop" THEN "apply"
  ELSE IF pc = "mark" THEN "mark_as_synced"
  ELSE "commit"

\* the source or the target is unreachable when caller p executes its next
\* statement: the statement raises and changes nothing in either database
ConnectionFailure(p, batch_size) ==
  /\ \E stmt \in {StatementAt(proc[p].pc)} :
     \E pc \in {IF Caught(stmt)
                 THEN StepAfter(proc[p].pc, proc[p].changes, proc[p].i,
                                proc[p].replicated_ids)
                 ELSE "idle"} :
     \E r \in {IF ~Caught(stmt) THEN Raised
                ELSE IF pc = "idle" THEN Len(proc[p].replicated_ids)
                ELSE proc[p].ret} :
       /\ proc' = [proc EXCEPT ![p] =
            IF stmt = "get_pending_changes"
            THEN [Idle EXCEPT !.batch_size = batch_size, !.ret = r,
                              !.failed = <<stmt>>]
            ELSE [@ EXCEPT !.pc = pc,
                           !.i = IF stmt = "apply" THEN @ + 1 ELSE @,
                           !.calls = Append(@, stmt),
                           !.ret = r,
                           !.failed = Append(@, stmt)]]
       /\ ret' = IF pc = "idle" THEN r ELSE ret
  /\ UNCHANGED <<source, target, log, seq, now, history, schema, durable,
                 targetDurable, fetched, stats, report, applied>>

\* the statements of the invocation of caller p
Step(p) ==
  \/ \E batch_size \in BatchSizes : Fetch(p, batch_size)
  \/ \E ok \in BOOLEAN : Apply(p, ok)
  \/ Mark(p)
  \/ CommitTarget(p)

\* two callers whose invocations overlap, and inserts into the source
NextSteps ==
  \/ \E new \in Rows : SrcInsert(new, MaxLogSteps)
  \/ \E p \in Procs : Step(p)

SpecSteps == Init /\ [][NextSteps]_vars

\* one caller, whose process may die between two statements
NextCrash ==
  \/ Mutate(MaxLogCrash)
  \/ Step(1)
  \/ Crash(1)

SpecCrash == Init /\ [][NextCrash]_vars

\* one caller, whose connections may fail at any statement, and inserts
\* into the source
NextFail ==
  \/ \E new \in Rows : SrcInsert(new, MaxLogFail)
  \/ Step(1)
  \/ \E batch_size \in BatchSizes : ConnectionFailure(1, batch_size)

SpecFail == Init /\ [][NextFail]_vars

(* ----------------------- the scheduled replicator --------------------- *)
\* a replicator whose scheduler calls replicate_changes with one batch_size
\* of at least 1, held here in the caller's locals
InitSync ==
  /\ source = {}
  /\ target = {}
  /\ log = {}
  /\ seq = 0
  /\ now = 0
  /\ history = <<>>
  /\ ret = NoCall
  /\ schema = setup_trigger_based_cdc(EmptyDb).schema
  /\ durable = setup_trigger_based_cdc(EmptyDb)
  /\ targetDurable = {}
  /\ \E batch_size \in BatchSizes \ {0} :
       proc = [p \in Procs |-> [Idle EXCEPT !.batch_size = batch_size]]
  /\ fetched = NULL
  /\ stats = NULL
  /\ report = NULL
  /\ applied = [view |-> {}, durable |-> {}]

\* the scheduler's call, when no apply raises
SyncCall == Replicate(proc[1].batch_size, {})

\* the loop `while ...: replicator.replicate_changes(batch_size=...)`: the
\* call is made again and again
NextDrain ==
  \/ Mutate(MaxLogDrain)
  \/ SyncCall

SpecDrain == InitSync /\ [][NextDrain]_vars /\ WF_vars(SyncCall)

\* a change whose apply raises at every attempt
Poison(change) == change.record_id = PoisonKey

\* the statements of the scheduler's calls, one call after the other, when
\* the apply of every poison record raises
PoisonSyncCall ==
  \/ Fetch(1, proc[1].batch_size)
  \/ \E ok \in BOOLEAN :
       /\ proc[1].pc = "loop"
       /\ ok = ~Poison(proc[1].changes[proc[1].i])
       /\ Apply(1, ok)
  \/ Mark(1)
  \/ CommitTarget(1)

NextPoison ==
  \/ Mutate(MaxLogPoison)
  \/ PoisonSyncCall

SpecPoison == InitSync /\ [][NextPoison]_vars /\ WF_vars(PoisonSyncCall)

(* ----------------------- the apply loop on its own -------------------- *)
\* the contents a target table with primary key id can have
Targets ==
  {t \in SUBSET Rows : \A r1, r2 \in t : r1.id = r2.id => r1 = r2}

\* the row events a trigger can record: the event, OLD and NEW
Events ==
  {<<"INSERT", new, new>> : new \in Rows}
    \cup {<<"UPDATE", old, new>> : old \in Rows, new \in Rows}
    \cup {<<"DELETE", old, old>> : old \in Rows}

\* the batches of n changes get_pending_changes can return: records of any
\* row events, with ascending cdc_ids
Batches(n) ==
  {[k \in 1..n |->
      ParseChange(TriggerBody(ev[k][1], k - 1, ev[k][2], ev[k][3], 0))]
   : ev \in [1..n -> Events]}

\* any target table, and any batch fetched for it
InitApply ==
  /\ source = {}
  /\ target \in Targets
  /\ log = {}
  /\ seq = 0
  /\ now = 0
  /\ history = <<>>
  /\ ret = NoCall
  /\ schema = setup_trigger_based_cdc(EmptyDb).schema
  /\ durable = setup_trigger_based_cdc(EmptyDb)
  /\ targetDurable = target
  /\ proc = [p \in Procs |-> Idle]
  /\ \E n \in 1..MaxBatch : fetched \in Batches(n)
  /\ stats = NULL
  /\ report = NULL
  /\ applied = [view |-> {}, durable |-> {}]

\* the for loop of replicate_changes run over the batch, once more
ApplyBatch ==
  /\ \E res \in {ApplyLoop(target, fetched, Raising(target, fetched, 1), 1,
                            <<>>)} :
       /\ target' = res.target
       /\ ret' = Len(res.replicated_ids)
  /\ UNCHANGED <<source, log, seq, now, history, schema, durable,
                 targetDurable, proc, fetched, stats, report, applied>>

SpecApply == InitApply /\ [][ApplyBatch]_vars

(* ------------------------ the readers and the monitor ----------------- *)
\* the report on its own, over statistics of any size
InitReport ==
  /\ source = {}
  /\ target = {}
  /\ log = {}
  /\ seq = 0
  /\ now = 0
  /\ history = <<>>
  /\ ret = NoCall
  /\ schema = setup_trigger_based_cdc(EmptyDb).schema
  /\ durable = setup_trigger_based_cdc(EmptyDb)
  /\ targetDurable = {}
  /\ proc = [p \in Procs |-> Idle]
  /\ fetched = NULL
  /\ \E ops \in SUBSET Operations : stats \in [ops -> StatsRows]
  /\ report = NULL
  /\ applied = [view |-> {}, durable |-> {}]

\* the report built from the statistics at hand
BuildReport ==
  /\ report' = HealthReport(stats, now)
  /\ UNCHANGED <<source, target, log, seq, now, history, ret, schema,
                 durable, targetDurable, proc, fetched, stats, applied>>

SpecReport == InitReport /\ [][BuildReport]_vars

\* a call of CDCSystem.get_pending_changes(limit)
PendingCall(limit) ==
  /\ fetched' = GetPendingChanges(log, limit)
  /\ UNCHANGED <<source, target, log, seq, now, history, ret, schema,
                 durable, targetDurable, proc, stats, report, applied>>

\* a call of CDCSystem.get_change_statistics()
StatsCall ==
  /\ stats' = GetChangeStatistics(log)
  /\ UNCHANGED <<source, target, log, seq, now, history, ret, schema,
                 durable, targetDurable, proc, fetched, report, applied>>

\* a call of CDCMonitor.get_health_report(), which calls
\* get_change_statistics
ReportCall ==
  /\ stats' = GetChangeStatistics(log)
  /\ report' = HealthReport(stats', now)
  /\ UNCHANGED <<source, target, log, seq, now, history, ret, schema,
                 durable, targetDurable, proc, fetched, applied>>

\* the pipeline, draining one record per replicate_changes call, observed
\* through the reader calls
NextMonitor ==
  \/ Mutate(MaxLogMonitor)
  \/ Replicate(1, {})
  \/ \E limit \in ReaderLimits : PendingCall(limit)
  \/ StatsCall
  \/ ReportCall

SpecMonitor == Init /\ [][NextMonitor]_vars

\* the three reader calls made one after the other
ReadAll(limit) ==
  /\ fetched' = GetPendingChanges(log, limit)
  /\ stats' = GetChangeStatistics(log)
  /\ report' = HealthReport(stats', now)
  /\ UNCHANGED <<source, target, log, seq, now, history, ret, schema,
                 durable, targetDurable, proc, applied>>

\* every operation of the core, called in any order on a source table
\* that is written between the calls
NextCore ==
  \/ Setup
  \/ Mutate(MaxLogCore)
  \/ Replicate(1, {})
  \/ MarkCall
  \/ \E limit \in ReaderLimits : ReadAll(limit)

SpecCore == Init /\ [][NextCore]_vars

(* ====================== properties of the pipeline ==================== *)
PendingIds(lg) == {r.cdc_id : r \in {q \in lg : q.synced = 0}}
SyncedIds(lg) == {r.cdc_id : r \in {q \in lg : q.synced = 1}}
\* the cdc_ids a step marks synced
NewlySynced == SyncedIds(log') \cap PendingIds(log)

\* the log against the mutations performed: as many records, as many
\* distinct cdc_ids, and in ascending cdc_id order the kinds of the mutations
C1_State ==
  /\ Cardinality(log) = Len(history)
  /\ Cardinality(CdcIds(log)) = Len(history)
  /\ \E ord \in {OrderByCdcId(log)} :
       \A i \in 1..Len(history) :
         /\ ord[i].operation = history[i].op
         /\ i > 1 => ord[i - 1].cdc_id < ord[i].cdc_id

\* C1: after N row mutations the log holds exactly N records with N distinct
\* cdc_ids; in ascending cdc_id order the i-th record carries the kind of the
\* i-th mutation; every appended record gets a cdc_id larger than every
\* cdc_id already in the log (none is reused).
C1_LogFollowsMutations ==
  /\ []C1_State
  /\ [][\A i \in CdcIds(log') \ CdcIds(log) : \A j \in CdcIds(log) : j < i]_vars

C1_Witness ==
  /\ Len(history) = 3
  /\ {history[i].op : i \in 1..3} = {"INSERT", "UPDATE", "DELETE"}
  /\ Cardinality(log) = 3

\* C2 (as claimed): whenever a record is marked delivered, every record with
\* a smaller cdc_id is marked delivered too.
C2_DeliveredPrefix ==
  \A r \in log : \A q \in log :
    (r.synced = 1 /\ q.cdc_id < r.cdc_id) => q.synced = 1

\* C2 (amended): a record is never delivered before an earlier record that
\* has not been attempted: when a replicate call marks record s delivered,
\* every record with a smaller cdc_id is delivered by the end of the call or
\* is a record of the same batch whose apply raised in that call.
C2_DeliveredAfterAttempt ==
  [][\A batch_size \in BatchSizes :
       \A changes \in {GetPendingChanges(log, batch_size)} :
         \A fails \in SUBSET Range(ChangeIds(changes)) :
           ReplicateChanges(changes, fails) =>
             \A s \in NewlySynced : \A q \in log :
               q.cdc_id < s => (q.cdc_id \in SyncedIds(log') \/ q.cdc_id \in fails)]_vars

C2_Witness ==
  \E r \in log : \E q \in log :
    /\ q.cdc_id < r.cdc_id
    /\ q.synced = 0
    /\ r.synced = 1

\* C3: once replicate has returned 0 with nothing left pending (no apply
\* having raised), the target holds exactly the rows of the source.
C3_Convergence ==
  (ret = 0 /\ PendingIds(log) = {}) => target = source

\* C4: a replicate call fetching K records of which exactly one raises
\* returns K-1, marks the other K-1 delivered, leaves the failed one pending,
\* and every later fetch offers the failed record before any record with a
\* larger cdc_id.
C4_PartialFailure ==
  [][\A batch_size \in BatchSizes :
       \A changes \in {GetPendingChanges(log, batch_size)} :
         \A f \in Range(ChangeIds(changes)) :
           ReplicateChanges(changes, {f}) =>
             /\ ret' = Len(changes) - 1
             /\ NewlySynced = Range(ChangeIds(changes)) \ {f}
             /\ f \in PendingIds(log')
             /\ \A next_size \in BatchSizes :
                  \E nxt \in {ChangeIds(GetPendingChanges(log', next_size))} :
                    \E i \in 1..Len(nxt) :
                      /\ nxt[i] = f
                      /\ \A j \in 1..Len(nxt) : nxt[j] > f => i < j]_vars

C4_Witness ==
  /\ ret = 1
  /\ \E f \in PendingIds(log) : \E s \in SyncedIds(log) : \E p \in PendingIds(log) :
       f < s /\ s < p

\* C5: no step changes the operation, record_id, old_data, new_data or
\* changed_at of a record already in the log, and no step turns a delivered
\* record back into a pending one.
C5_ImmutableAfterAppend ==
  [][\A r \in log :
       /\ \E q \in log' : q.cdc_id = r.cdc_id
       /\ \A q \in log' :
            q.cdc_id = r.cdc_id =>
              /\ q.operation = r.operation
              /\ q.record_id = r.record_id
              /\ q.old_data = r.old_data
              /\ q.new_data = r.new_data
              /\ q.changed_at = r.changed_at
              /\ r.synced = 1 => q.synced = 1]_vars

C5_Witness ==
  \E r \in log :
    /\ r.operation = "UPDATE"
    /\ r.synced = 1
    /\ r.sync_timestamp[1] > r.changed_at

\* get_pending_changes() is the list of the records with synced = 0, parsed,
\* in ascending cdc_id order
C6_PendingExact ==
  \E p \in {GetPendingChanges(log, 0)} :
    /\ Len(p) = Cardinality({r \in log : r.synced = 0})
    /\ \A i \in 1..Len(p) :
         /\ p[i].cdc_id \in CdcIds(log)
         /\ \E r \in {CdcById(log, p[i].cdc_id)} :
              r.synced = 0 /\ p[i] = ParseChange(r)
         /\ i > 1 => p[i - 1].cdc_id < p[i].cdc_id

\* what mark_as_synced(S) does to the statistics: each record of S moves
\* from pending to synced under its operation
MovedToSynced(lg, S, before, after) ==
  /\ DOMAIN after = DOMAIN before
  /\ \A op \in DOMAIN before :
       \E n \in {Cardinality({r \in lg : r.cdc_id \in S /\ r.operation = op})} :
         /\ after[op].synced = before[op].synced + n
         /\ after[op].pending = before[op].pending - n
         /\ after[op].total = before[op].total

\* C6: get_pending_changes() returns exactly the records with synced = 0, in
\* ascending cdc_id order; mark_as_synced(S) for a set S of pending ids
\* removes every id of S from the result and moves each record of S from
\* pending to synced in the statistics of its operation; an id that is
\* synced never comes back in a later result.
C6_PendingAndMark ==
  /\ []C6_PendingExact
  /\ [][\E pending \in {Range(ChangeIds(GetPendingChanges(log', 0)))} :
          /\ SyncedIds(log) \cap pending = {}
          /\ \A S \in SUBSET PendingIds(log) :
               MarkDelivered(S) =>
                 /\ S \cap pending = {}
                 /\ MovedToSynced(log, S, GetChangeStatistics(log),
                                  GetChangeStatistics(log'))]_vars

C6_Witness ==
  /\ Cardinality(PendingIds(log)) = 2
  /\ \E s \in SyncedIds(log) : \E q \in PendingIds(log) : s < q

\* C7: replicate_changes returns the number of fetched records whose apply
\* did not raise, which is the number of records the call turns from pending
\* to synced; each of these is a record of the fetched batch, and every
\* record outside the batch is left as it was.
C7_ReturnsDelivered ==
  [][\A batch_size \in BatchSizes :
       \A changes \in {GetPendingChanges(log, batch_size)} :
         \A fails \in SUBSET Range(ChangeIds(changes)) :
           ReplicateChanges(changes, fails) =>
             /\ ret' = Len(changes) - Cardinality(fails)
             /\ ret' = Cardinality(NewlySynced)
             /\ NewlySynced \subseteq Range(ChangeIds(changes))
             /\ \A r \in log :
                  r.cdc_id \notin Range(ChangeIds(changes)) => r \in log']_vars

C7_Witness ==
  /\ ret = 2
  /\ Cardinality(SyncedIds(log)) = 2
  /\ \E f \in PendingIds(log) : \E s \in SyncedIds(log) : f < s

\* the synced flag of every record
Flags(lg) == {<<r.cdc_id, r.synced>> : r \in lg}

\* C8: for every id set S (pending, already synced or unknown ids, or none)
\* a second mark_as_synced(S) leaves the synced flags and the statistics as
\* the first one left them, and a set S without a pending id changes no flag.
C8_MarkIdempotent ==
  \A S \in SUBSET (CdcIds(log) \cup {UnknownId}) :
    \E once \in {MarkAsSynced(log, S, now)} :
      \E twice \in {MarkAsSynced(once, S, now + 1)} :
        /\ Flags(twice) = Flags(once)
        /\ GetChangeStatistics(twice) = GetChangeStatistics(once)
        /\ CdcIds(once) = CdcIds(log)
        /\ S \cap PendingIds(log) = {} => Flags(once) = Flags(log)

C8_Witness ==
  /\ Cardinality(SyncedIds(log)) = 2
  /\ PendingIds(log) # {}

\* C9: the sync_timestamp of a record that is already synced is never
\* changed by a later step.
C9_DeliveredAtKept ==
  [][\A r \in log :
       r.synced = 1 =>
         \A q \in log' : q.cdc_id = r.cdc_id => q.sync_timestamp = r.sync_timestamp]_vars

\* C10: the record of the i-th mutation, read back through
\* get_pending_changes' parsing, has for an INSERT old_data NULL and
\* new_data the inserted row, for an UPDATE old_data the row before and
\* new_data the row after, for a DELETE old_data the deleted row and
\* new_data NULL; record_id is the first column of the row after (INSERT,
\* UPDATE) or of the deleted row (DELETE).
C10_CaptureImages ==
  \E ord \in {OrderByCdcId(log)} :
    /\ Len(ord) = Len(history)
    /\ \A i \in 1..Len(history) :
         \E c \in {ParseChange(ord[i])} : \E h \in {history[i]} :
           /\ c.operation = h.op
           /\ h.op = "INSERT" =>
                /\ c.old_data = NULL
                /\ c.new_data = h.new
                /\ c.record_id = h.new[Columns[1]]
           /\ h.op = "UPDATE" =>
                /\ c.old_data = h.old
                /\ c.new_data = h.new
                /\ c.record_id = h.new[Columns[1]]
           /\ h.op = "DELETE" =>
                /\ c.old_data = h.old
                /\ c.new_data = NULL
                /\ c.record_id = h.old[Columns[1]]

C10_Witness ==
  /\ Len(history) = 3
  /\ history[1].op = "INSERT"
  /\ history[2].op = "UPDATE"
  /\ history[2].old.id # history[2].new.id
  /\ history[2].old.value # history[2].new.value
  /\ history[3].op = "DELETE"

(* ================== properties of the replicator's statements ========= *)
\* C11: a replicate_changes call that finds no pending record returns 0 and
\* does no work: it applies nothing, calls neither mark_as_synced nor the
\* target's commit, and leaves the log, the target and the source as they
\* were.  (A step taken with the caller idle that is not a mutation is the
\* fetch of a new call.)
C11_EmptyBatchNoWork ==
  [][(proc[1].pc = "idle" /\ history' = history /\ PendingIds(log) = {})
       => /\ ret' = 0
          /\ proc'[1].pc = "idle"
          /\ proc'[1].calls = <<>>
          /\ proc'[1].replicated_ids = <<>>
          /\ UNCHANGED <<source, target, log, seq, durable, targetDurable,
                         applied>>]_vars

\* a call on a drained, non-empty log has returned 0
C11_Witness ==
  /\ log # {}
  /\ PendingIds(log) = {}
  /\ proc[1].pc = "idle"
  /\ proc[1].changes = <<>>
  /\ ret = 0

(* ====================== properties of the monitor ===================== *)
\* C12 as stated: the status is "warning" exactly when the summed pending
\* count is strictly greater than the threshold, so a pending count equal to
\* the threshold reports "healthy"
C12_WarningAboveThreshold ==
  report # NULL =>
    (report.health_status = "warning"
       <=> report.pending_changes > HealthThreshold)

\* C12, amended: the status is "warning" exactly when the summed pending
\* count is at least 1000 and "healthy" below it, so a pending count of
\* exactly 1000 reports "warning"; statistics of an empty log give
\* total_changes = 0 and "healthy"
C12_WarningFromThreshold ==
  report # NULL =>
    /\ report.pending_changes = SumOver(stats, DOMAIN stats, "pending")
    /\ report.health_status \in {"healthy", "warning"}
    /\ report.health_status = "warning"
         <=> report.pending_changes >= HealthThreshold
    /\ DOMAIN stats = {}
         => report.total_changes = 0 /\ report.health_status = "healthy"

\* a report over exactly 1000 pending records
C12_Witness ==
  /\ report # NULL
  /\ report.pending_changes = HealthThreshold
  /\ report.health_status = "warning"

\* C13: the statistics are computed over the whole log: for every operation
\* with at least one record, total is the number of log records of that
\* operation, pending the number of those not delivered, synced the number
\* delivered, and total = pending + synced; the report's total_changes is
\* pending_changes + synced_changes and is the number of records in the log
C13_StatsOverFullLog ==
  LET st == GetChangeStatistics(log)
      rp == HealthReport(st, now)
  IN /\ \A op \in Operations :
          LET ids == {i \in CdcIds(log) : CdcById(log, i).operation = op}
          IN IF ids = {} THEN op \notin DOMAIN st
             ELSE /\ op \in DOMAIN st
                  /\ st[op].total = Cardinality(ids)
                  /\ st[op].pending = Cardinality(ids \cap PendingIds(log))
                  /\ st[op].synced = Cardinality(ids \cap SyncedIds(log))
                  /\ st[op].total = st[op].pending + st[op].synced
     /\ rp.total_changes = rp.pending_changes + rp.synced_changes
     /\ rp.total_changes = Cardinality(log)
     /\ rp.pending_changes = Cardinality(PendingIds(log))
     /\ rp.synced_changes = Cardinality(SyncedIds(log))

\* a report returned for a log holding a delivered and a pending record of
\* the same operation
C13_Witness ==
  /\ report # NULL
  /\ report.by_operation = GetChangeStatistics(log)
  /\ \E op \in DOMAIN report.by_operation :
       /\ report.by_operation[op].pending > 0
       /\ report.by_operation[op].synced > 0
  /\ report.total_changes = Cardinality(log)

\* the number of rows SELECT ... WHERE synced = 0 [LIMIT limit] returns
PendingCount(lg, limit) ==
  IF limit # 0 /\ limit < Cardinality(PendingIds(lg)) THEN limit
  ELSE Cardinality(PendingIds(lg))

\* C15: get_pending_changes, get_change_statistics and get_health_report are
\* read-only: a step that returns a new result from one of them leaves every
\* log record (flag and sync_timestamp included), the source rows and the
\* target rows as they were, and the counts it returns are those of the
\* state it leaves, so that a second call right after it returns the same
C15_ReadersReadOnly ==
  [][(fetched' # fetched \/ stats' # stats \/ report' # report)
       => /\ UNCHANGED <<source, target, log, seq, schema, durable,
                         targetDurable, applied>>
          /\ fetched' # fetched
               => /\ Range(ChangeIds(fetched')) \subseteq PendingIds(log')
                  /\ \E limit \in ReaderLimits :
                       Len(fetched') = PendingCount(log', limit)
          /\ stats' # stats
               => /\ SumOver(stats', DOMAIN stats', "total")
                       = Cardinality(log')
                  /\ SumOver(stats', DOMAIN stats', "pending")
                       = Cardinality(PendingIds(log'))
          /\ report' # report
               => /\ report'.total_changes = Cardinality(log')
                  /\ report'.pending_changes = Cardinality(PendingIds(log'))
                  /\ report'.synced_changes
                       = Cardinality(SyncedIds(log'))]_vars

\* the three readers have returned the counts of a log that holds a
\* delivered record, with a row in the target
C15_Witness ==
  /\ \E r \in log : r.synced = 1 /\ r.sync_timestamp # NULL
  /\ PendingIds(log) # {}
  /\ target # {}
  /\ fetched = GetPendingChanges(log, 0)
  /\ stats = GetChangeStatistics(log)
  /\ report # NULL
  /\ report.by_operation = stats

(* ======================== properties of the setup ===================== *)
\* C14: setup_trigger_based_cdc is idempotent: a call made when the cdc
\* objects exist (any call after the first) leaves the schema and every log
\* record as they are, and after one or more calls each mutation of the
\* source appends exactly one record to the log.  (A step that performs no
\* mutation is a setup call.)
C14_SetupIdempotent ==
  [][/\ (schema.table /\ history' = history)
          => UNCHANGED <<schema, log, seq, source>>
     /\ (~schema.table /\ history' = history)
          => /\ log' = log
             /\ Cardinality(schema'.triggers) = Cardinality(Operations)
     /\ (schema.table /\ history' # history)
          => /\ log \subseteq log'
             /\ Cardinality(log') = Cardinality(log) + 1
             /\ schema' = schema]_vars

\* after setup, a mutation was captured while earlier records were in the
\* log: a further setup call starts from a log that holds records
C14_Witness ==
  /\ schema.table
  /\ Cardinality(schema.triggers) = Cardinality(Operations)
  /\ Cardinality(log) >= 2
  /\ Len(history) > Cardinality(log)

(* ================= properties of an interrupted replicator ============ *)
\* C16: at-least-once under interruption: whenever no replicate_changes
\* invocation is in progress (the last one returned, or was interrupted
\* between two of its statements), no record is marked delivered in the
\* committed log unless its apply has been committed to the target
C16_DeliveredOnlyIfCommitted ==
  proc[1].pc = "idle" =>
    \A r \in durable.log : r.synced = 1 => r.cdc_id \in applied.durable

\* C17: the statements of one replicate_changes call run in this order:
\* every fetched record is attempted first, then the ids that succeeded are
\* marked by exactly one mark_as_synced call, and only after it the target
\* is committed; no record is marked while records are still being applied
C17_StepOrder ==
  /\ [](\A j \in 1..Len(proc[1].calls) :
          /\ j <= Len(proc[1].changes) + 2
          /\ j <= Len(proc[1].changes) => proc[1].calls[j] = "apply"
          /\ j = Len(proc[1].changes) + 1
               => proc[1].calls[j] = "mark_as_synced"
          /\ j = Len(proc[1].changes) + 2 => proc[1].calls[j] = "commit")
  /\ [][/\ NewlySynced # {}
            => /\ proc[1].i = Len(proc[1].changes) + 1
               /\ "mark_as_synced" \notin Range(proc[1].calls)
               /\ NewlySynced = Range(proc[1].replicated_ids)
               /\ targetDurable' = targetDurable
        /\ targetDurable' # targetDurable
            => /\ "mark_as_synced" \in Range(proc[1].calls)
               /\ Range(proc[1].replicated_ids) \subseteq SyncedIds(log)
               /\ log' = log]_vars

\* a call that fetched two records, failed on one and applied the other has
\* returned
C17_Witness ==
  /\ proc[1].pc = "idle"
  /\ proc[1].calls = <<"apply", "apply", "mark_as_synced", "commit">>
  /\ Len(proc[1].replicated_ids) = 1
  /\ ret = 1

(* ================ properties of overlapping replicators =============== *)
\* C18: overlapping replicate_changes calls do not exclude each other: a
\* call's fetch returns the oldest pending record whether or not another
\* call in progress has fetched it, and every call that returns counts each
\* record it applied; so both calls can fetch the same pending record, both
\* apply it to the target and both count it in what they return
C18_NoMutualExclusion ==
  /\ [](\A p \in Procs :
          (proc[p].pc = "idle" /\ proc[p].ret # NoCall)
            => proc[p].ret = Len(proc[p].replicated_ids))
  /\ [][\A p \in Procs :
          (proc[p].pc = "idle" /\ proc'[p] # proc[p] /\ PendingIds(log) # {})
            => \E k \in 1..Len(proc'[p].changes) :
                 /\ proc'[p].changes[k].cdc_id \in PendingIds(log)
                 /\ \A i \in PendingIds(log) :
                      proc'[p].changes[k].cdc_id <= i]_vars

\* both calls fetched the same pending record, both applied it and both
\* returned 1
C18_Witness ==
  \E id \in CdcIds(log) :
    /\ \A p \in Procs :
         /\ proc[p].pc = "idle"
         /\ id \in Range(proc[p].replicated_ids)
         /\ id \in Range(ChangeIds(proc[p].changes))
         /\ proc[p].ret = 1
    /\ id \in SyncedIds(log)
    /\ id \in applied.durable

\* the cdc_ids of the records the call of caller 1 fetched
BatchIds == Range(ChangeIds(proc[1].changes))

\* C19: a record appended after a replicate_changes call fetched its batch
\* is not part of that batch, is neither applied nor marked by that call,
\* stays pending and is returned by a later get_pending_changes; no appended
\* record is lost.  (The batch of a call changes at its fetch only; a step
\* that changes history is an append.)
C19_SnapshotBatch ==
  /\ [](\A i \in PendingIds(log) :
          i \in Range(ChangeIds(GetPendingChanges(log, 0))))
  /\ [][/\ proc'[1].changes # proc[1].changes => proc[1].pc = "idle"
        /\ (proc[1].pc # "idle" /\ history' # history)
             => /\ (CdcIds(log') \ CdcIds(log)) \cap BatchIds = {}
                /\ CdcIds(log') \ CdcIds(log) \subseteq PendingIds(log')
                /\ log \subseteq log'
        /\ proc[1].pc # "idle"
             => /\ NewlySynced \subseteq BatchIds
                /\ applied'.view \ applied.view \subseteq BatchIds
                /\ CdcIds(log) \subseteq CdcIds(log')]_vars

\* a call that fetched without a limit has marked its batch and returned;
\* a record appended after its fetch is still pending
C19_Witness ==
  /\ proc[1].pc = "idle"
  /\ proc[1].batch_size = 0
  /\ proc[1].ret = Len(proc[1].changes)
  /\ BatchIds # {}
  /\ BatchIds \subseteq SyncedIds(log)
  /\ \E i \in PendingIds(log) :
       /\ i \notin BatchIds
       /\ i \notin applied.view
       /\ i \in Range(ChangeIds(GetPendingChanges(log, 0)))

(* ================= properties of the source transactions ============== *)
\* the rows of the source table after the mutations h, from position i on
RECURSIVE Replay(_, _, _)
Replay(rows, h, i) ==
  IF i > Len(h) THEN rows
  ELSE Replay((IF h[i].old = NULL THEN rows ELSE rows \ {h[i].old})
                \cup (IF h[i].new = NULL THEN {} ELSE {h[i].new}), h, i + 1)

\* C20: capture is atomic with the mutation: in every committed state of the
\* source database the log holds one record per committed mutation, with its
\* operation and images, and no other record, and the source rows are those
\* the committed mutations produce; an abandoned transaction leaves neither
\* its mutations nor their records
C20_CaptureAtomic ==
  /\ [](/\ durable.source = Replay({}, durable.history, 1)
         /\ Cardinality(durable.log) = Len(durable.history)
         /\ \A i \in 1..Len(durable.history) :
              \E r \in durable.log :
                /\ r.cdc_id = i
                /\ r.operation = durable.history[i].op
                /\ r.old_data = IF durable.history[i].old = NULL THEN NULL
                                ELSE json_object(Columns,
                                                 durable.history[i].old)
                /\ r.new_data = IF durable.history[i].new = NULL THEN NULL
                                ELSE json_object(Columns,
                                                 durable.history[i].new))
  /\ [][Len(history') < Len(history)
          => /\ history' = durable.history
             /\ source' = durable.source
             /\ log' = durable.log
             /\ durable' = durable]_vars

\* a committed mutation with its record, and after it a mutation executed
\* and captured in a transaction that is still open
C20_Witness ==
  /\ Len(durable.history) >= 1
  /\ Len(history) > Len(durable.history)
  /\ Cardinality(log) = Cardinality(durable.log) + 1
  /\ source # durable.source

\* C21 as stated: an invocation during which a connection failed, at any
\* of its statements, ended in an error and returned no count
C21_ConnectionFailureFatal ==
  \A p \in Procs :
    (proc[p].pc = "idle" /\ proc[p].failed # <<>>) => proc[p].ret = Raised

\* C21, amended: a connection failure while fetching, while marking or
\* while committing the target ends the invocation in an error, with no
\* count and with nothing written by the failed statement; a connection
\* failure while applying a record is caught by the loop, which leaves the
\* record out of replicated_ids and goes on, and an invocation whose only
\* failures were of that kind returns its count
C21_FailureOutsideLoopFatal ==
  /\ [](\A p \in Procs :
          /\ proc[p].ret = Raised
               <=> (/\ proc[p].failed # <<>>
                    /\ ~Caught(proc[p].failed[Len(proc[p].failed)]))
          /\ proc[p].ret = Raised => proc[p].pc = "idle"
          /\ (proc[p].pc = "idle" /\ proc[p].calls # <<>>
              /\ proc[p].ret # Raised)
               => proc[p].ret = Len(proc[p].replicated_ids))
  /\ [][\A p \in Procs :
          (proc'[p].failed # proc[p].failed /\ proc'[p].failed # <<>>)
            => /\ UNCHANGED <<log, target, durable, targetDurable>>
               /\ proc'[p].replicated_ids = proc[p].replicated_ids
                    \/ proc'[p].replicated_ids = <<>>
               /\ proc[p].pc = "loop"
                    => /\ proc'[p].ret # Raised
                       /\ proc'[p].i = proc[p].i + 1
                       /\ proc[p].changes[proc[p].i].cdc_id
                            \in PendingIds(log')
               /\ proc[p].pc # "loop"
                    => proc'[p].ret = Raised /\ proc'[p].pc = "idle"]_vars

\* an invocation returned the count 1 although the connection failed while
\* it applied the other record of its batch, which is still pending
C21_Witness ==
  /\ proc[1].pc = "idle"
  /\ proc[1].failed = <<"apply">>
  /\ Len(proc[1].changes) = 2
  /\ proc[1].ret = 1
  /\ ret = 1
  /\ Cardinality(PendingIds(log)) = 1
  /\ Cardinality(SyncedIds(log)) = 1

\* C22: the fetch of a replicate_changes(batch_size) call, for every
\* batch_size >= 0, returns at most batch_size records, namely the
\* batch_size pending records with the smallest cdc_ids (all of them when
\* fewer are pending), so that the call attempts at most batch_size records
C22_AtMostLimit ==
  [][\A p \in Procs :
       (proc[p].pc = "idle" /\ proc'[p] # proc[p] /\ proc'[p].failed = <<>>)
         => /\ Len(proc'[p].changes) <= proc'[p].batch_size
            /\ \A i \in PendingIds(log) :
                 i \in Range(ChangeIds(proc'[p].changes))
                   <=> Cardinality({j \in PendingIds(log) : j < i})
                         < proc'[p].batch_size]_vars

\* C23: for every target table and every batch of changes, applying the
\* batch in ascending cdc_id order and then applying it again in the same
\* order raises no error, and the second pass leaves the target rows as the
\* first pass left them
C23_ApplyIdempotent ==
  [][/\ ret' = Len(fetched)
     /\ ret # NoCall => target' = target]_vars

\* a batch of an INSERT and an UPDATE of the same key was applied to a
\* target that held another value for that key, and changed it
C23_Witness ==
  /\ ret = Len(fetched)
  /\ Len(fetched) = 2
  /\ fetched[1].operation = "INSERT"
  /\ fetched[2].operation = "UPDATE"
  /\ fetched[1].record_id = fetched[2].record_id
  /\ \E r \in targetDurable : r.id = fetched[1].record_id
  /\ target # targetDurable

\* C24: the change log is append-only: no call of get_pending_changes,
\* mark_as_synced, get_change_statistics, replicate_changes,
\* get_health_report or of setup_trigger_based_cdc again removes a record,
\* renumbers one or rewrites what the trigger stored in it, and no row
\* mutation removes one either, so the set of cdc_ids in the log only grows
C24_AppendOnly ==
  [][/\ CdcIds(log) \subseteq CdcIds(log')
     /\ \A r \in log : \E r2 \in log' :
          /\ r2.cdc_id = r.cdc_id
          /\ r2.operation = r.operation
          /\ r2.record_id = r.record_id
          /\ r2.old_data = r.old_data
          /\ r2.new_data = r.new_data
          /\ r2.changed_at = r.changed_at
     /\ seq <= seq']_vars

\* a log of two records, one of them delivered, that was read by all three
\* reader calls and replicated from
C24_Witness ==
  /\ Cardinality(CdcIds(log)) = MaxLogCore
  /\ Cardinality(SyncedIds(log)) = 1
  /\ ret = 1
  /\ schema.table
  /\ fetched # NULL
  /\ Len(fetched) = 1
  /\ report # NULL
  /\ report.total_changes = MaxLogCore

\* C25: at every step of setup_trigger_based_cdc, a failure part-way
\* through included, a trigger is installed only if the cdc table exists,
\* in the connection's view and in the committed database: no row event
\* finds an installed trigger without the table it inserts into, and every
\* mutation appends one record per trigger installed for its event
C25_HookOnlyWithTable ==
  /\ [](/\ schema.triggers # {} => schema.table
        /\ durable.schema.triggers # {} => durable.schema.table
        /\ \A event \in Operations : CanFire(schema, event))
  /\ [][history' # history
          => /\ Cardinality(log') - Cardinality(log)
                  = Cardinality({tr \in schema.triggers :
                                   tr.event = history'[Len(history')].op})
             /\ log' # log => schema.table]_vars

\* a setup call failed after it had created the table, the index and the
\* insert trigger; of the two mutations made since, the INSERT was captured
\* and the other, whose trigger is missing, was not
C25_Witness ==
  /\ schema.table
  /\ Cardinality(schema.triggers) = 1
  /\ Len(history) = 2
  /\ Cardinality(log) = 1
  /\ history[1].op = "INSERT"
  /\ history[2].op # "INSERT"

\* C26: when replicate_changes(batch_size) with batch_size >= 1 is called
\* again and again, every pending record whose own apply succeeds is
\* eventually marked delivered, also when earlier records fail at every
\* attempt and stay pending
C26_GoodEventuallyDelivered ==
  \A i \in 1..MaxLogPoison :
    []((i \in PendingIds(log) /\ ~Poison(CdcById(log, i)))
         => <>(i \in SyncedIds(log)))

\* C27: drain termination: when no apply raises and replicate_changes is
\* called again and again with one batch_size >= 1, the log ends up with no
\* pending record once the mutations of the source have stopped (every
\* behaviour makes finitely many); each call delivers
\* min(batch_size, number pending) records and returns that number, so a
\* call made when nothing is pending returns 0
C27_DrainTerminates ==
  /\ <>[](PendingIds(log) = {})
  /\ [][history' = history
          => \E pending \in {Cardinality(PendingIds(log))} :
             \E n \in {IF proc[1].batch_size < pending
                       THEN proc[1].batch_size ELSE pending} :
               /\ ret' = n
               /\ Cardinality(PendingIds(log')) = pending - n
               /\ SyncedIds(log') \ SyncedIds(log) \subseteq PendingIds(log)
               /\ pending = 0 => ret' = 0 /\ log' = log]_vars

\* the log was drained one record per call, and the call that followed
\* returned 0
C27_Witness ==
  /\ proc[1].batch_size = 1
  /\ Len(history) = MaxLogDrain
  /\ Cardinality(SyncedIds(log)) = MaxLogDrain
  /\ PendingIds(log) = {}
  /\ ret = 0
  /\ target = source

\* C28: within one replicate_changes call the records are applied to the
\* target strictly in ascending cdc_id order, one per pass of the loop, and
\* a record enters replicated_ids only in the pass in which its own target
\* statement was executed without raising; what the call marks delivered
\* are those records
C28_AppliedInOrder ==
  /\ [](proc[1].pc # "idle"
          => /\ \A j, k \in 1..Len(proc[1].changes) :
                  j < k => proc[1].changes[j].cdc_id
                             < proc[1].changes[k].cdc_id
             /\ \A j, k \in 1..Len(proc[1].replicated_ids) :
                  j < k => proc[1].replicated_ids[j]
                             < proc[1].replicated_ids[k]
             /\ Range(proc[1].replicated_ids) \subseteq applied.view
             /\ Range(proc[1].replicated_ids)
                  \subseteq {proc[1].changes[j].cdc_id :
                               j \in 1..(proc[1].i - 1)})
  /\ [][/\ (proc[1].pc = "loop" /\ proc'[1].i = proc[1].i + 1)
            => \E c \in {proc[1].changes[proc[1].i]} :
                 \/ /\ proc'[1].replicated_ids
                         = Append(proc[1].replicated_ids, c.cdc_id)
                    /\ target' = ApplyChange(target, c)
                    /\ c.cdc_id \in applied'.view
                 \/ /\ proc'[1].replicated_ids = proc[1].replicated_ids
                    /\ target' = target
                    /\ applied' = applied
        /\ NewlySynced # {}
            => /\ proc[1].pc = "mark"
               /\ NewlySynced \subseteq Range(proc[1].replicated_ids)
               /\ NewlySynced \subseteq applied.view]_vars

\* a call that fetched two records has run both passes of its loop: the
\* apply of the first raised, the second was applied, and only the second
\* is about to be marked
C28_Witness ==
  /\ proc[1].pc = "mark"
  /\ Len(proc[1].changes) = 2
  /\ proc[1].i = 3
  /\ proc[1].replicated_ids = <<proc[1].changes[2].cdc_id>>
  /\ applied.view = {proc[1].changes[2].cdc_id}
  /\ proc[1].calls = <<"apply", "apply">>

====
